---- MODULE Spec2Model ----
(***************************************************************************)
(* Model of the app-shell configuration module (app-shell/src/config.js):  *)
(* the lazily created store and override tree, the config:UPDATE handler   *)
(* returned by registerConfig, and the read API (getStore, getOverrides,   *)
(* getConfig, getFullConfig, handleConfigChange).                          *)
(*                                                                         *)
(* JavaScript values are nodes [t, v, kids]:                               *)
(*   t = "undef" | "null" | "scalar" | "array" | "obj" | "throw"           *)
(* "throw" stands for a call that ends by raising (v names the error).     *)
(* A path string is held as the list of its '.'-separated segments, so ""  *)
(* is <<"">> and a missing (undefined) path is <<>>.                       *)
(***************************************************************************)
EXTENDS Integers, Sequences, FiniteSets, TLC

\* ------------------------------------------------------------ bounds
MaxSent == 2
MaxHandlers == 2

\* ------------------------------------------------------------ values
NoKids == [k \in {} |-> 0]
Undef == [t |-> "undef", v |-> "", kids |-> NoKids]
Null == [t |-> "null", v |-> "", kids |-> NoKids]
EmptyArray == [t |-> "array", v |-> "", kids |-> NoKids]
Scalar(x) == [t |-> "scalar", v |-> x, kids |-> NoKids]
Obj(f) == [t |-> "obj", v |-> "", kids |-> f]
Throw(e) == [t |-> "throw", v |-> e, kids |-> NoKids]

\* x != null
NotNullish(n) == n.t \notin {"undef", "null"}
\* typeof x === 'object' && x != null
IsTypeofObject(n) == n.t \in {"obj", "array"}
\* is-plain-obj, as used by merge-options
isOptionObject(n) == n.t = "obj"
\* o[k] for any JavaScript value o (a primitive or an array has no such key)
Prop(n, k) == IF n.t = "obj" /\ k \in DOMAIN n.kids THEN n.kids[k] ELSE Undef
\* o[k] = val on an object
WithProp(n, k, val) ==
  Obj([j \in DOMAIN n.kids \cup {k} |-> IF j = k THEN val ELSE n.kids[j]])

\* ------------------------------------------------------------ DEFAULTS
\* the default document, reduced to one section of each shape
DEFAULTS ==
  Obj([devtools |-> Scalar("false"),
       log |-> Obj([level |-> Obj([file |-> Scalar("debug"),
                                   console |-> Scalar("info")])]),
       ui |-> Obj([width |-> Scalar("1024")]),
       discovery |-> Obj([candidates |-> EmptyArray])])

\* ------------------------------------------------------------ @thi.ng/paths
\* variant: the empty string is a path of one empty key
toPathKeepsEmpty(path) == path

toPath(path) == IF path = <<>> \/ path = <<"">> THEN <<>> ELSE path

\* variant: the walk looks a key up in whatever the step before gave
RECURSIVE getInKeysNoGuard(_, _)
getInKeysNoGuard(s, ks) ==
  IF ks = <<>> THEN s
  ELSE IF NotNullish(s) THEN getInKeysNoGuard(Prop(s, Head(ks)), Tail(ks))
  ELSE Throw("TypeError")

RECURSIVE getInKeys(_, _)
getInKeys(s, ks) ==
  IF ks = <<>> THEN s
  ELSE IF NotNullish(s) THEN getInKeys(Prop(s, Head(ks)), Tail(ks))
  ELSE Undef

getIn(state, path) == getInKeys(state, toPath(path))

\* ------------------------------------------------------------ dot-prop
RECURSIVE dotPropGetSegs(_, _)
dotPropGetSegs(obj, segs) ==
  IF obj.t # "obj" \/ Head(segs) \notin DOMAIN obj.kids THEN Undef
  ELSE LET child == obj.kids[Head(segs)] IN
       IF Len(segs) = 1 THEN child
       ELSE IF ~NotNullish(child) THEN Undef
       ELSE dotPropGetSegs(child, Tail(segs))

dotPropGet(obj, path) ==
  IF obj.t # "obj" \/ path = <<>> THEN obj ELSE dotPropGetSegs(obj, path)

\* variant: the value is written at the first segment, without nesting
dotPropSetSegsFlat(obj, segs, value) == WithProp(obj, Head(segs), value)

RECURSIVE dotPropSetSegs(_, _, _)
dotPropSetSegs(obj, segs, value) ==
  IF Len(segs) = 1 THEN WithProp(obj, Head(segs), value)
  ELSE LET cur == Prop(obj, Head(segs))
           child == IF cur.t = "obj" THEN cur ELSE Obj(NoKids)
       IN WithProp(obj, Head(segs), dotPropSetSegs(child, Tail(segs), value))

dotPropSet(obj, path, value) ==
  IF obj.t # "obj" \/ path = <<>> THEN obj ELSE dotPropSetSegs(obj, path, value)

\* ------------------------------------------------------------ merge-options
\* variant: a one-level merge, a key of the source replaces the merged key whole
mergeShallow(merged, source) ==
  IF ~isOptionObject(source) \/ ~isOptionObject(merged) THEN source
  ELSE Obj([k \in DOMAIN merged.kids \cup DOMAIN source.kids |->
              IF k \in DOMAIN source.kids THEN source.kids[k] ELSE merged.kids[k]])

RECURSIVE merge(_, _)
merge(merged, source) ==
  IF ~isOptionObject(source) \/ ~isOptionObject(merged) THEN source
  ELSE Obj([k \in DOMAIN merged.kids \cup DOMAIN source.kids |->
              IF k \in DOMAIN source.kids
              THEN IF k \in DOMAIN merged.kids
                   THEN merge(merged.kids[k], source.kids[k])
                   ELSE source.kids[k]
              ELSE merged.kids[k]])

mergeOptions(a, b) ==
  IF (a.t # "undef" /\ ~isOptionObject(a)) \/ (b.t # "undef" /\ ~isOptionObject(b))
  THEN Throw("TypeError")
  ELSE LET m1 == IF a.t = "undef" THEN Obj(NoKids) ELSE merge(Obj(NoKids), a)
       IN IF b.t = "undef" THEN m1 ELSE merge(m1, b)

\* ------------------------------------------------------------ yargs-parser
\* a flag is [path, value]; flags of one command line do not repeat or
\* overlap, so each is set into a fresh place of the nested result
RECURSIVE setKeys(_, _)
setKeys(tree, flags) ==
  IF flags = <<>> THEN tree
  ELSE setKeys(dotPropSetSegs(tree, Head(flags).path, Head(flags).value), Tail(flags))

yargsParser(args) == setKeys(Obj([k \in {"_"} |-> EmptyArray]), args)

\* ------------------------------------------------------------ conf (electron-store)
\* Object.assign({}, defaults, fileStore)
ObjectAssign(a, b) ==
  IF b.t # "obj" THEN a
  ELSE Obj([k \in DOMAIN a.kids \cup DOMAIN b.kids |->
              IF k \in DOMAIN b.kids THEN b.kids[k] ELSE a.kids[k]])

\* variant: the Store is constructed without its defaults
StoreCtorNoDefaults(file) == ObjectAssign(Obj(NoKids), file)

\* new Store({defaults}): the document on disk after construction
StoreCtor(file) == ObjectAssign(DEFAULTS, file)

\* set store(value) / get store(): the document goes through JSON on disk,
\* which drops keys whose value is undefined
RECURSIVE JsonRoundTrip(_)
JsonRoundTrip(n) ==
  IF n.t = "obj"
  THEN Obj([k \in {j \in DOMAIN n.kids : n.kids[j].t # "undef"} |->
              JsonRoundTrip(n.kids[k])])
  ELSE n

\* variant: the callback fires on every 'change' event
RECURSIVE runHandlersAlways(_, _, _)
runHandlersAlways(hs, i, doc) ==
  IF i > Len(hs) THEN [handlers |-> hs, fired |-> <<>>]
  ELSE LET newValue == dotPropGet(doc, hs[i].path)
           rest == runHandlersAlways([hs EXCEPT ![i].cur = newValue], i + 1, doc)
       IN [handlers |-> rest.handlers,
           fired |-> <<[h |-> i, new |-> newValue, old |-> hs[i].cur]>> \o rest.fired]

\* onDidChange's listener, run for every registered handler on a 'change'
\* event: the callback fires when the value at its key differs from the
\* value it saw last
RECURSIVE runHandlers(_, _, _)
runHandlers(hs, i, doc) ==
  IF i > Len(hs) THEN [handlers |-> hs, fired |-> <<>>]
  ELSE LET newValue == dotPropGet(doc, hs[i].path)
           changed == newValue # hs[i].cur
           hs2 == IF changed THEN [hs EXCEPT ![i].cur = newValue] ELSE hs
           rest == runHandlers(hs2, i + 1, doc)
       IN [handlers |-> rest.handlers,
           fired |-> IF changed
                     THEN <<[h |-> i, new |-> newValue, old |-> hs[i].cur]>> \o rest.fired
                     ELSE rest.fired]

\* outcomes of writing the store's file
IO == {"ok", "fail"}

\* variant: a failed write of the file is swallowed
writeStoreSwallow(old, new, io) ==
  [threw |-> FALSE, doc |-> IF io = "fail" THEN old ELSE JsonRoundTrip(new)]

\* set store(value): the document is written to the file; the write raises
\* when the file system refuses it, and the file keeps what it held
writeStore(old, new, io) ==
  IF io = "fail" THEN [threw |-> TRUE, doc |-> old]
  ELSE [threw |-> FALSE, doc |-> JsonRoundTrip(new)]

\* one step of a call, in the order the steps happen
Event(ev, h) == [ev |-> ev, h |-> h]

\* variant: the 'change' event is emitted before the file is written
confSetEmitsFirst(doc, hs, key, value, io) ==
  LET w == writeStore(doc, dotPropSet(doc, key, value), io)
      run == runHandlers(hs, 1, JsonRoundTrip(dotPropSet(doc, key, value)))
  IN [threw |-> w.threw, error |-> "Error", doc |-> w.doc,
      handlers |-> run.handlers, fired |-> run.fired,
      events |-> [n \in 1..Len(run.fired) |-> Event("fire", run.fired[n].h)]
                 \o <<Event("write", 0)>>]

\* Store#set(key, value) on the document doc with the handlers hs: the key
\* must be a string; the document is written, then the 'change' event runs
\* the subscriptions
confSet(doc, hs, key, value, io) ==
  IF key = <<>>
  THEN [threw |-> TRUE, error |-> "TypeError", doc |-> doc, handlers |-> hs,
        fired |-> <<>>, events |-> <<>>]
  ELSE LET w == writeStore(doc, dotPropSet(doc, key, value), io) IN
       IF w.threw
       THEN [threw |-> TRUE, error |-> "Error", doc |-> w.doc, handlers |-> hs,
             fired |-> <<>>, events |-> <<>>]
       ELSE LET run == runHandlers(hs, 1, w.doc) IN
            [threw |-> FALSE, error |-> "", doc |-> w.doc,
             handlers |-> run.handlers, fired |-> run.fired,
             events |-> <<Event("write", 0)>>
                        \o [n \in 1..Len(run.fired) |-> Event("fire", run.fired[n].h)]]

\* ------------------------------------------------------------ inputs
Flag(p, x) == [path |-> p, value |-> Scalar(x)]

\* command lines (with OT_APP_ environment variables) the process may start with
ARGVS ==
  { <<>>,
    <<Flag(<<"log", "level", "console">>, "debug")>>,
    <<Flag(<<"devtools">>, "true"), Flag(<<"ui", "height">>, "600")>>,
    <<Flag(<<"log", "level">>, "silly")>> }

\* what the store's file holds when the process starts: no file (first run),
\* or the document an earlier run left
DISKS ==
  { Undef,
    Obj([log |-> Obj([level |-> Obj([file |-> Scalar("silly")])]),
         legacy |-> Scalar("1")]) }

\* the starts explored: each command line on a first run, two of them also
\* over the document of an earlier run
STARTS ==
  { st \in [argv : ARGVS, disk : DISKS] :
      st.disk = Undef \/ Len(st.argv) = 1 }

\* paths of config:UPDATE requests
UPDATE_PATHS ==
  { <<>>, <<"">>, <<"devtools">>, <<"devtools", "x">>, <<"log">>,
    <<"log", "level", "console">> }

\* values of config:UPDATE requests
UPDATE_VALUES ==
  { Scalar("800"), Obj([level |-> Obj([console |-> Scalar("silly")])]) }

\* payloads of config:UPDATE requests: a scalar for every path, an object
\* for a section and for a key below a scalar
UPDATE_PAYLOADS ==
  { pl \in [path : UPDATE_PATHS, value : UPDATE_VALUES] :
      pl.value.t = "scalar" \/ pl.path \in {<<"log">>, <<"devtools", "x">>} }

\* actions the front-end sends over the 'dispatch' channel
INBOUND_ACTIONS ==
  [type : {"config:UPDATE"}, payload : UPDATE_PAYLOADS]
  \cup [type : {"config:SET", "shell:CHECK_UPDATE"},
        payload : [path : {<<"devtools">>}, value : {Scalar("800")}]]

\* paths handed to getConfig and getOverrides
READ_PATHS ==
  { <<>>, <<"">>, <<"devtools">>, <<"log">>, <<"log", "level">>,
    <<"log", "level", "console">>, <<"nokey">>, <<"nokey", "deep">> }

\* what the other handlers of the 'dispatch' listener do with an action:
\* all return, or the first of them raises
OTHERS == {"ok", "throw"}

\* paths handed to handleConfigChange
HANDLER_PATHS == { <<"log">> }

\* ------------------------------------------------------------ state
VARIABLES
  argv,            \* process.argv / environment, fixed at start
  disk,            \* content of the store's file (Undef: no file yet)
  _store,          \* TRUE once the Store has been constructed
  _over,           \* cached override tree (Undef: not parsed yet)
  _log,            \* TRUE once the logger has been created
  storeCalls,      \* probe: number of Store constructions
  parseCalls,      \* probe: number of yargsParser calls
  sent,            \* payloads of the config:SET actions dispatched so far
  handlers,        \* onDidChange subscriptions, in registration order
  started,         \* TRUE once startUp has registered the 'dispatch' listener
  file0,           \* probe: what the store's file held at start
  last             \* the latest call: operation, arguments, result, effects

vars == <<argv, disk, _store, _over, _log, storeCalls, parseCalls, sent,
          handlers, started, file0, last>>

\* variant: every access constructs a Store that starts from the defaults alone
storeReseed ==
  [doc |-> ObjectAssign(DEFAULTS, Undef), next |-> TRUE, calls |-> storeCalls + 1]

\* const store = () => _store || (_store = new Store({ defaults: DEFAULTS }))
store ==
  [doc |-> IF _store THEN disk ELSE StoreCtor(disk),
   next |-> TRUE,
   calls |-> IF _store THEN storeCalls ELSE storeCalls + 1]

\* variant: the parsed tree is returned but not kept
overridesNoCache ==
  [tree |-> yargsParser(argv), next |-> _over, calls |-> parseCalls + 1]

\* const overrides = () => _over || (_over = yargsParser(argv, PARSE_ARGS_OPTS))
overrides ==
  [tree |-> IF _over.t # "undef" THEN _over ELSE yargsParser(argv),
   next |-> IF _over.t # "undef" THEN _over ELSE yargsParser(argv),
   calls |-> IF _over.t # "undef" THEN parseCalls ELSE parseCalls + 1]

\* variant: the override check never finds the path
inOverridesNever(path) == FALSE

\* getIn(overrides(), payload.path) != null
inOverrides(path) == NotNullish(getIn(overrides.tree, path))

\* variant: the override is used without the test for null
getConfigOfNoNullTest(doc, tree, path) ==
  LET result == dotPropGet(doc, path)
      over == getIn(tree, path)
  IN IF IsTypeofObject(result) THEN mergeOptions(result, over) ELSE over

\* getConfig's result on a document and an override tree
getConfigOf(doc, tree, path) ==
  LET result == dotPropGet(doc, path)
      over == getIn(tree, path)
  IN IF NotNullish(over)
     THEN IF IsTypeofObject(result) THEN mergeOptions(result, over) ELSE over
     ELSE result

\* what getConfig(path) returns when called in the current state
getConfigNow(path) == getConfigOf(store.doc, overrides.tree, path)

\* the effects of one call of an exported function
Effects(ret, usesStore, usesOver, usesLog, doc, hs, dispatched, logs, fired, events) ==
  [ret |-> ret, usesStore |-> usesStore, usesOver |-> usesOver,
   usesLog |-> usesLog, doc |-> doc, handlers |-> hs,
   dispatched |-> dispatched, logs |-> logs, fired |-> fired,
   events |-> events]

\* a call that touches nothing
NoEffects ==
  Effects(Undef, FALSE, FALSE, FALSE, disk, handlers, <<>>, <<>>, <<>>, <<>>)

\* variant: config:SET is dispatched first, the store is set afterwards
handleUpdateSendFirst(payload, io) ==
  IF inOverrides(payload.path)
  THEN Effects(Undef, FALSE, TRUE, TRUE, disk, handlers, <<>>,
               <<"debug:Handling config:UPDATE",
                 "info:in overrides; not updating">>, <<>>, <<>>)
  ELSE LET w == confSet(store.doc, handlers, payload.path, payload.value, io) IN
       Effects(IF w.threw THEN Throw(w.error) ELSE Undef,
               TRUE, TRUE, TRUE, w.doc, w.handlers,
               <<[type |-> "config:SET", payload |-> payload]>>,
               <<"debug:Handling config:UPDATE", "info:Updating">>,
               w.fired, <<Event("dispatch", 0)>> \o w.events)

\* the body of the handler for a config:UPDATE with this payload
handleUpdate(payload, io) ==
  IF inOverrides(payload.path)
  THEN Effects(Undef, FALSE, TRUE, TRUE, disk, handlers, <<>>,
               <<"debug:Handling config:UPDATE",
                 "info:in overrides; not updating">>, <<>>, <<>>)
  ELSE LET w == confSet(store.doc, handlers, payload.path, payload.value, io) IN
       Effects(IF w.threw THEN Throw(w.error) ELSE Undef,
               TRUE, TRUE, TRUE, w.doc, w.handlers,
               IF w.threw THEN <<>>
               ELSE <<[type |-> "config:SET", payload |-> payload]>>,
               <<"debug:Handling config:UPDATE", "info:Updating">>,
               w.fired,
               IF w.threw THEN w.events
               ELSE w.events \o <<Event("dispatch", 0)>>)

\* variant: the handler does not look at the action's type
handleAnyType(action, io) == handleUpdate(action.payload, io)

\* the handler returned by registerConfig(dispatch)
handleIncomingAction(action, io) ==
  IF action.type = "config:UPDATE"
  THEN handleUpdate(action.payload, io)
  ELSE NoEffects

\* variant: the config handler is the last one the listener calls
ipcListenerConfigLast(action, io, others) ==
  IF others = "throw"
  THEN [effects |-> NoEffects, configCalls |-> 0, otherCalls |-> 1]
  ELSE [effects |-> handleIncomingAction(action, io), configCalls |-> 1,
        otherCalls |-> 5]

\* the listener startUp puts on the 'dispatch' channel: the config handler
\* first, then the five other handlers, until one raises
ipcListener(action, io, others) ==
  LET c == handleIncomingAction(action, io) IN
  [effects |-> c,
   configCalls |-> 1,
   otherCalls |-> IF c.ret.t = "throw" THEN 0
                  ELSE IF others = "throw" THEN 1 ELSE 5]

getStore ==
  Effects(store.doc, TRUE, FALSE, FALSE, store.doc, handlers, <<>>, <<>>, <<>>,
          <<>>)

getOverrides(path) ==
  Effects(getIn(overrides.tree, path), FALSE, TRUE, FALSE, disk, handlers,
          <<>>, <<>>, <<>>, <<>>)

getConfig(path) ==
  Effects(getConfigNow(path), TRUE, TRUE, FALSE, store.doc, handlers,
          <<>>, <<>>, <<>>, <<>>)

getFullConfig == getConfig(<<>>)

\* store().onDidChange(path, changeHandler)
handleConfigChange(path) ==
  IF path = <<>>
  THEN Effects(Throw("TypeError"), TRUE, FALSE, FALSE, store.doc, handlers,
               <<>>, <<>>, <<>>, <<>>)
  ELSE Effects(Undef, TRUE, FALSE, FALSE, store.doc,
               Append(handlers, [path |-> path, cur |-> dotPropGet(store.doc, path)]),
               <<>>, <<>>, <<>>, <<>>)

\* variant: an action equal to the one sent last is not sent again
dispatchDedup(channel, action) ==
  IF channel # <<>> /\ channel[Len(channel)] = action THEN channel
  ELSE Append(channel, action)

\* dispatch: mainWindow.webContents.send('dispatch', action)
dispatch(channel, action) == Append(channel, action)

\* the module state and the channel after a call with the effects e has run
\* to completion
Run(e) ==
  /\ _store' = IF e.usesStore THEN store.next ELSE _store
  /\ storeCalls' = IF e.usesStore THEN store.calls ELSE storeCalls
  /\ _over' = IF e.usesOver THEN overrides.next ELSE _over
  /\ parseCalls' = IF e.usesOver THEN overrides.calls ELSE parseCalls
  /\ _log' = (_log \/ e.usesLog)
  /\ disk' = e.doc
  /\ handlers' = e.handlers
  /\ sent' = IF e.dispatched = <<>> THEN sent
             ELSE dispatch(sent, e.dispatched[1])
  /\ UNCHANGED <<argv, file0>>

\* the record of a call op(path, value) with the effects e
Call(op, path, value, e) ==
  [op |-> op, path |-> path, value |-> value, ret |-> e.ret,
   before |-> disk, dispatched |-> e.dispatched, logs |-> e.logs,
   fired |-> e.fired, events |-> e.events, configCalls |-> 0,
   otherCalls |-> 0]

Init ==
  /\ \E st \in STARTS : argv = st.argv /\ disk = st.disk
  /\ file0 = disk
  /\ started = FALSE
  /\ _store = FALSE
  /\ _over = Undef
  /\ _log = FALSE
  /\ storeCalls = 0
  /\ parseCalls = 0
  /\ sent = <<>>
  /\ handlers = <<>>
  /\ last = [op |-> "init", path |-> <<>>, value |-> Undef, ret |-> Undef,
             before |-> disk, dispatched |-> <<>>, logs |-> <<>>,
             fired |-> <<>>, events |-> <<>>, configCalls |-> 0,
             otherCalls |-> 0]

\* ------------------------------------------------------------ operations
\* startUp: creates the window and registers the handlers and the listener
StartUp ==
  /\ ~started
  /\ started' = TRUE
  /\ last' = Call("startUp", <<>>, Undef, NoEffects)
  /\ UNCHANGED <<argv, disk, _store, _over, _log, storeCalls, parseCalls,
                 sent, handlers, file0>>

\* an action arrives on the 'dispatch' channel (after a refused write the
\* other handlers are not reached, so their outcome is left at "ok")
HandleIncomingAction ==
  \E action \in INBOUND_ACTIONS, io \in IO, others \in OTHERS :
    LET l == ipcListener(action, io, others) IN
    /\ started
    /\ io = "ok" \/ others = "ok"
    /\ Len(sent) + Len(l.effects.dispatched) <= MaxSent
    /\ Run(l.effects)
    /\ last' = [Call(action.type, action.payload.path, action.payload.value,
                     l.effects)
                  EXCEPT !.configCalls = l.configCalls,
                         !.otherCalls = l.otherCalls]
    /\ UNCHANGED started

GetStore ==
  /\ Run(getStore)
  /\ last' = Call("getStore", <<>>, Undef, getStore)
  /\ UNCHANGED started

GetOverrides ==
  \E p \in READ_PATHS :
    /\ Run(getOverrides(p))
    /\ last' = Call("getOverrides", p, Undef, getOverrides(p))
    /\ UNCHANGED started

GetConfig ==
  \E p \in READ_PATHS :
    /\ Run(getConfig(p))
    /\ last' = Call("getConfig", p, Undef, getConfig(p))
    /\ UNCHANGED started

GetFullConfig ==
  /\ Run(getFullConfig)
  /\ last' = Call("getFullConfig", <<>>, Undef, getFullConfig)
  /\ UNCHANGED started

HandleConfigChange ==
  \E p \in HANDLER_PATHS :
    /\ Len(handlers) < MaxHandlers
    /\ Run(handleConfigChange(p))
    /\ last' = Call("handleConfigChange", p, Undef, handleConfigChange(p))
    /\ UNCHANGED started

Next ==
  \/ StartUp
  \/ HandleIncomingAction
  \/ GetStore
  \/ GetOverrides
  \/ GetConfig
  \/ GetFullConfig
  \/ HandleConfigChange

Spec == Init /\ [][Next]_vars

\* ------------------------------------------------------------ vocabulary
IsPrefix(a, b) == Len(a) <= Len(b) /\ SubSeq(b, 1, Len(a)) = a

\* the keys a path string addresses ("" and a missing path address the root)
Segments(path) == IF path = <<"">> THEN <<>> ELSE path

\* the places an override value sits at: one per flag, and the parser's "_"
OverrideLeaves == { argv[i].path : i \in 1..Len(argv) } \cup { <<"_">> }

LeafValue(q) ==
  IF q = <<"_">> THEN EmptyArray
  ELSE argv[CHOOSE i \in 1..Len(argv) : argv[i].path = q].value

\* the override tree holds something at path: an override value at the path
\* itself, or an object that carries override values below it
HasOverride(path) == \E l \in OverrideLeaves : IsPrefix(Segments(path), l)

OverrideExactlyAt(path) == Segments(path) \in OverrideLeaves

OverrideAtAncestor(path) ==
  \E l \in OverrideLeaves : IsPrefix(l, Segments(path)) /\ l # Segments(path)

RECURSIVE NodeAt(_, _)
NodeAt(tree, segs) ==
  IF segs = <<>> THEN tree
  ELSE IF tree.t = "obj" /\ Head(segs) \in DOMAIN tree.kids
       THEN NodeAt(tree.kids[Head(segs)], Tail(segs))
       ELSE Undef

\* store.get(path) on the persisted document
StoredAt(path) == IF path = <<>> THEN disk ELSE NodeAt(disk, path)

\* the override tree's value at path, once the tree is parsed
OverAt(path) == NodeAt(_over, Segments(path))

SetAction(path, value) ==
  [type |-> "config:SET", payload |-> [path |-> path, value |-> value]]

C2_PassThroughWrite ==
  (last.op = "config:UPDATE" /\ ~HasOverride(last.path)
     /\ last.ret.t # "throw") =>
    /\ getConfigNow(last.path) = last.value
    /\ last.dispatched = <<SetAction(last.path, last.value)>>
    /\ sent # <<>>
    /\ sent[Len(sent)] = SetAction(last.path, last.value)

C2_Witness ==
  /\ last.op = "config:UPDATE"
  /\ last.path = <<"devtools", "x">>
  /\ ~HasOverride(last.path)
  /\ Len(sent) = 2
  /\ NodeAt(disk, <<"devtools", "x">>) = last.value

\* ------------------------------------------------------------ C3
\* C3: a config:UPDATE for a path below the root is rejected (nothing
\* written, nothing dispatched) exactly when an override value sits at the
\* path or at an ancestor of it; an override value that sits only below the
\* path does not block the write.
C3_RejectedIffAtOrAbove ==
  (last.op = "config:UPDATE" /\ Segments(last.path) # <<>>
     /\ last.ret.t # "throw") =>
    ((last.dispatched = <<>> /\ disk = last.before)
       <=> (OverrideExactlyAt(last.path) \/ OverrideAtAncestor(last.path)))

\* ------------------------------------------------------------ C4
\* C4: for every path at which an override value sits, the value getConfig
\* returns for the path never changes from one state to the next, whatever
\* config:UPDATE is handled.
C4_OverrideReadStable ==
  [][\A p \in READ_PATHS :
       OverrideExactlyAt(p) => getConfigNow(p)' = getConfigNow(p)]_vars

\* ------------------------------------------------------------ C5
\* C5: for every path at which the override tree holds a scalar, getConfig
\* returns that scalar, whether the stored value there is absent, a scalar
\* or an object.
C5_ScalarOverrideWins ==
  (last.op = "getConfig" /\ OverrideExactlyAt(last.path)) =>
    last.ret = LeafValue(Segments(last.path))

\* ------------------------------------------------------------ C6
\* r is s merged with o, both objects: r has the keys of both; a key only s
\* has keeps its stored value; a key o has takes the override's value, and
\* where both hold an object under the key the same holds one level down
RECURSIVE MergedAsSpec(_, _, _)
MergedAsSpec(r, s, o) ==
  /\ r.t = "obj"
  /\ DOMAIN r.kids = DOMAIN s.kids \cup DOMAIN o.kids
  /\ \A k \in DOMAIN s.kids \ DOMAIN o.kids : r.kids[k] = s.kids[k]
  /\ \A k \in DOMAIN o.kids :
       IF k \in DOMAIN s.kids /\ s.kids[k].t = "obj" /\ o.kids[k].t = "obj"
       THEN MergedAsSpec(r.kids[k], s.kids[k], o.kids[k])
       ELSE r.kids[k] = o.kids[k]

\* C6: where the stored value and the override value at a path are both
\* objects, getConfig returns their merge: stored-only keys kept, override
\* keys taken from the override, at every depth.
C6_DeepMerge ==
  (/\ last.op = "getConfig"
   /\ StoredAt(last.path).t = "obj"
   /\ OverAt(last.path).t = "obj") =>
    MergedAsSpec(last.ret, StoredAt(last.path), OverAt(last.path))

C6_Witness ==
  /\ last.op = "getConfig"
  /\ last.path = <<"log">>
  /\ StoredAt(last.path).t = "obj"
  /\ OverAt(last.path).t = "obj"
  /\ NodeAt(StoredAt(last.path), <<"level", "console">>) = Scalar("info")
  /\ NodeAt(last.ret, <<"level", "file">>) = Scalar("debug")
  /\ NodeAt(last.ret, <<"level", "console">>) = Scalar("debug")

\* ------------------------------------------------------------ C7
\* C7: for a path with no override at it (the override tree holds nothing
\* there) and no override value at an ancestor, getConfig returns the value
\* stored at the path.
C7_NoOverrideReadsStored ==
  (/\ last.op = "getConfig"
   /\ ~HasOverride(last.path)
   /\ ~OverrideAtAncestor(last.path)) =>
    last.ret = StoredAt(last.path)

C7_Witness ==
  /\ last.op = "getConfig"
  /\ last.path = <<"log", "level">>
  /\ ~HasOverride(last.path)
  /\ ~OverrideAtAncestor(last.path)
  /\ sent # <<>>
  /\ last.ret.t = "obj"
  /\ NodeAt(last.ret, <<"console">>) = Scalar("silly")

\* ------------------------------------------------------------ C8
\* C8: whatever calls are made and in whatever order, the override parser
\* has run at most once and the Store has been constructed at most once;
\* the cached override tree is the parse of the command line, and every
\* getOverrides(path) returns that tree's value at the path.
C8_LazyInitOnce ==
  /\ parseCalls <= 1
  /\ storeCalls <= 1
  /\ (parseCalls = 0 <=> _over = Undef)
  /\ (storeCalls = 0 <=> ~_store)
  /\ \A l \in OverrideLeaves :
       _over # Undef => NodeAt(_over, l) = LeafValue(l)
  /\ (last.op = "getOverrides" /\ OverrideExactlyAt(last.path)
        /\ Segments(last.path) # <<>>) =>
       last.ret = LeafValue(Segments(last.path))
  /\ (last.op = "getOverrides" /\ ~HasOverride(last.path)) => last.ret = Undef

C8_Witness ==
  /\ last.op = "getOverrides"
  /\ OverrideExactlyAt(last.path)
  /\ Len(sent) = 2
  /\ handlers # <<>>
  /\ parseCalls = 1
  /\ storeCalls = 1

\* ------------------------------------------------------------ C9
\* the persisted document: the file's content, or, while the Store is not
\* constructed yet, the document its construction creates (the defaults,
\* under the top-level keys an existing file holds)
PersistedDocument ==
  IF _store THEN disk
  ELSE Obj([k \in DOMAIN DEFAULTS.kids \cup DOMAIN disk.kids |->
              IF k \in DOMAIN disk.kids THEN disk.kids[k] ELSE DEFAULTS.kids[k]])

\* C9: the persisted document changes only in a step that handles a
\* config:UPDATE whose path has no override; reads, getStore,
\* handleConfigChange, shadowed updates and other actions leave it as it is.
C9_OnlyAcceptedUpdatesWrite ==
  [][PersistedDocument' # PersistedDocument =>
       (last'.op = "config:UPDATE" /\ ~HasOverride(last'.path))]_vars

C9_Witness ==
  /\ last.op \in {"getStore", "getConfig", "getFullConfig", "handleConfigChange",
                  "config:SET"}
  /\ Len(sent) = 1
  /\ disk = last.before
  /\ NodeAt(disk, sent[1].payload.path) = sent[1].payload.value

\* ------------------------------------------------------------ C10
\* r is the stored value s resolved against the override value o: s when
\* there is no override, their merge when both are objects, else o
ResolvedAsSpec(r, s, o) ==
  IF ~NotNullish(o) THEN r = s
  ELSE IF s.t = "obj" /\ o.t = "obj" THEN MergedAsSpec(r, s, o)
  ELSE r = o

WrittenUpdate == last.op = "config:UPDATE" /\ last.dispatched # <<>>

\* the latest call set a path to a value that the write before it had set
\* the same path to
SetTwiceInARow ==
  /\ WrittenUpdate
  /\ Len(sent) >= 2
  /\ sent[Len(sent) - 1] = sent[Len(sent)]

\* the subscription numbered i was called back in the latest call
Fired(i) == \E n \in DOMAIN last.fired : last.fired[n].h = i

\* C11 as stated: setting a path to the same value a second time leaves the
\* persisted document as the first set left it, and every change
\* subscription registered on the path fires on the second set as well.
C11_SameSetFiresAgain ==
  SetTwiceInARow =>
    /\ disk = last.before
    /\ \A i \in DOMAIN handlers : handlers[i].path = last.path => Fired(i)

\* C11, amended: setting a path to the same value a second time leaves the
\* persisted document as the first set left it; a change subscription fires
\* in a set exactly when that set changed the value stored at the
\* subscription's path, so no subscription fires on the second set.
C11_SameSetFiresOnChangeOnly ==
  /\ SetTwiceInARow => (disk = last.before /\ last.fired = <<>>)
  /\ WrittenUpdate =>
       \A i \in DOMAIN handlers :
         Fired(i) <=> NodeAt(last.before, handlers[i].path)
                        # NodeAt(disk, handlers[i].path)

C11_Witness ==
  /\ SetTwiceInARow
  /\ last.path = <<"log">>
  /\ handlers # <<>>
  /\ handlers[1].path = last.path
  /\ ~Fired(1)

\* ------------------------------------------------------------ C12
\* position of the first event of a kind in the latest call (0: none)
EventAt(ev) ==
  IF \E n \in DOMAIN last.events : last.events[n].ev = ev
  THEN CHOOSE n \in DOMAIN last.events :
         /\ last.events[n].ev = ev
         /\ \A m \in DOMAIN last.events : last.events[m].ev = ev => n <= m
  ELSE 0

\* the document the Store holds once constructed over what the file held:
\* the defaults, under the top-level keys of the file
Seeded(file) ==
  Obj([k \in DOMAIN DEFAULTS.kids \cup DOMAIN file.kids |->
         IF k \in DOMAIN file.kids THEN file.kids[k] ELSE DEFAULTS.kids[k]])

\* C12: a config:SET for (path, value) is dispatched only by a config:UPDATE
\* whose store.set(path, value) has completed: the write comes first and the
\* document then holds value at path; when store.set raises, the call
\* dispatches nothing.
C12_PersistBeforeBroadcast ==
  /\ (last.op = "config:UPDATE" /\ last.ret.t = "throw") =>
       (last.dispatched = <<>> /\ EventAt("dispatch") = 0
          /\ disk = Seeded(last.before))
  /\ last.dispatched # <<>> =>
       /\ last.op = "config:UPDATE"
       /\ last.ret = Undef
       /\ last.dispatched = <<SetAction(last.path, last.value)>>
       /\ StoredAt(last.path) = last.value
       /\ 0 < EventAt("write")
       /\ EventAt("write") < EventAt("dispatch")
  /\ \A n \in DOMAIN sent : sent[n].type = "config:SET"

C12_Witness ==
  /\ last.op = "config:UPDATE"
  /\ ~HasOverride(last.path)
  /\ last.ret = Throw("Error")
  /\ Len(sent) = 1
  /\ StoredAt(last.path) # last.value
  /\ StoredAt(sent[1].payload.path) = sent[1].payload.value

\* ------------------------------------------------------------ C13
\* the events of the latest call are in order: the write, then the
\* subscriptions in registration order, then the dispatch
EventsInOrder ==
  \A a, b \in DOMAIN last.events :
    LET x == last.events[a]
        y == last.events[b]
    IN /\ (x.ev = "write" /\ y.ev \in {"fire", "dispatch"}) => a < b
       /\ (x.ev = "fire" /\ y.ev = "dispatch") => a < b
       /\ (x.ev = "fire" /\ y.ev = "fire" /\ x.h < y.h) => a < b

\* the subscription numbered i was called back exactly once in the latest call
FiredOnce(i) ==
  Cardinality({n \in DOMAIN last.events :
                 last.events[n] = Event("fire", i)}) = 1

\* C13 as stated: in a config:UPDATE on a path that is written, every
\* change handler registered on the path is called, in registration order,
\* after the write and before the config:SET is dispatched.
C13_EveryHandlerCalledInOrder ==
  WrittenUpdate =>
    /\ \A i \in DOMAIN handlers : handlers[i].path = last.path => FiredOnce(i)
    /\ EventsInOrder

\* C13, amended: in a config:UPDATE on a path that is written, the change
\* handlers registered on the path are all called, once each, when the
\* write changed the value stored at the path, and none of them is called
\* when it did not; the calls are in registration order, after the write
\* and before the config:SET is dispatched.
C13_ChangedHandlersCalledInOrder ==
  WrittenUpdate =>
    /\ \A i \in DOMAIN handlers :
         handlers[i].path = last.path =>
           IF NodeAt(last.before, last.path) # NodeAt(disk, last.path)
           THEN FiredOnce(i) ELSE ~Fired(i)
    /\ EventsInOrder
    /\ EventAt("write") = 1
    /\ EventAt("dispatch") = Len(last.events)

C13_Witness ==
  /\ WrittenUpdate
  /\ last.path = <<"log">>
  /\ Len(handlers) = 2
  /\ handlers[2].path = last.path
  /\ last.events = <<Event("write", 0), Event("fire", 1), Event("fire", 2),
                     Event("dispatch", 0)>>


\* ------------------------------------------------------------ C14
\* the types of the actions that arrive on the 'dispatch' channel
InboundTypes == { a.type : a \in INBOUND_ACTIONS }

\* C14: every action that arrives on the 'dispatch' channel is passed to the
\* config handler exactly once, whether the other handlers of the listener
\* return or raise; no other call runs the config handler.
C14_ConfigHandlerOncePerAction ==
  /\ last.op \in InboundTypes => (started /\ last.configCalls = 1)
  /\ last.op \notin InboundTypes => last.configCalls = 0
  /\ (last.op = "config:UPDATE" /\ ~HasOverride(last.path)
        /\ last.ret.t # "throw") =>
       StoredAt(last.path) = last.value

C14_Witness ==
  /\ last.op = "config:UPDATE"
  /\ last.otherCalls = 1
  /\ last.configCalls = 1
  /\ ~HasOverride(last.path)
  /\ StoredAt(last.path) = last.value
  /\ Len(sent) = 1

\* ------------------------------------------------------------ C15
\* C15: getConfig and getOverrides of a path that neither the persisted
\* document nor the override tree holds anything at return undefined, raise
\* nothing, and leave the persisted document, the override tree, the
\* actions sent and the subscriptions as they were.
C15_AbsentPathReadsUndefined ==
  [][(/\ last'.op \in {"getConfig", "getOverrides"}
      /\ NodeAt(PersistedDocument, last'.path) = Undef
      /\ ~HasOverride(last'.path)) =>
       /\ last'.ret = Undef
       /\ PersistedDocument' = PersistedDocument
       /\ _over # Undef => _over' = _over
       /\ UNCHANGED <<argv, sent, handlers, started>>]_vars

C15_Witness ==
  /\ last.op = "getConfig"
  /\ last.path = <<"nokey", "deep">>
  /\ last.ret = Undef
  /\ sent # <<>>
  /\ disk = last.before

\* ------------------------------------------------------------ C16
\* C16: the actions sent grow by exactly one config:SET, with the request's
\* payload and at the end, in every step that handles a config:UPDATE whose
\* path has no override and whose write completes, and stay as they are in
\* every other step: nothing is reordered, merged or dropped as a duplicate.
C16_BroadcastOrder ==
  [][IF /\ last'.op = "config:UPDATE"
        /\ ~HasOverride(last'.path)
        /\ last'.ret.t # "throw"
     THEN sent' = Append(sent, SetAction(last'.path, last'.value))
     ELSE sent' = sent]_vars

C16_Witness ==
  /\ last.op = "config:UPDATE"
  /\ last.path = <<"devtools">>
  /\ Len(sent) = 2
  /\ sent[1] = sent[2]
  /\ sent[2] = SetAction(last.path, last.value)

\* ------------------------------------------------------------ C17
\* a document with value written at the keys segs, objects made on the way
RECURSIVE WriteAt(_, _, _)
WriteAt(doc, segs, value) ==
  IF segs = <<>> THEN value
  ELSE LET kids == IF doc.t = "obj" THEN doc.kids ELSE NoKids
           k == Head(segs)
       IN Obj([j \in DOMAIN kids \cup {k} |->
                 IF j = k
                 THEN WriteAt(IF k \in DOMAIN kids THEN kids[k] ELSE Undef,
                              Tail(segs), value)
                 ELSE kids[j]])

\* the document a consumer holds after applying the payloads of the actions
\* in order, as writes at their paths
RECURSIVE Replay(_, _)
Replay(doc, actions) ==
  IF actions = <<>> THEN doc
  ELSE Replay(WriteAt(doc, Head(actions).payload.path,
                      Head(actions).payload.value),
              Tail(actions))

\* C17: replaying the payloads of all config:SET actions sent so far, in
\* order, onto the document the store was seeded with gives the persisted
\* document.
C17_ReplayGivesDocument ==
  Replay(Seeded(file0), sent) = PersistedDocument

C17_Witness ==
  /\ file0 # Undef
  /\ Len(sent) = 2
  /\ sent[1].payload.path = <<"devtools">>
  /\ sent[2].payload.path = <<"devtools", "x">>
  /\ Prop(disk, "legacy") = Scalar("1")
  /\ NodeAt(disk, <<"devtools", "x">>) = sent[2].payload.value
  /\ last.ret = Throw("Error")

\* ------------------------------------------------------------ C18
\* C18: handling an action whose type is not config:UPDATE, an inbound
\* config:SET included, changes nothing: the file, the actions sent and the
\* subscriptions stay as they are, and neither the Store nor the override
\* tree nor the logger is created by it.
C18_OtherActionsIgnored ==
  [][last'.op \in InboundTypes \ {"config:UPDATE"} =>
       /\ UNCHANGED <<argv, disk, _store, _over, _log, storeCalls,
                      parseCalls, sent, handlers>>
       /\ last'.dispatched = <<>>
       /\ last'.ret = Undef]_vars

C18_Witness ==
  /\ last.op = "config:SET"
  /\ started
  /\ ~_store
  /\ _over = Undef
  /\ storeCalls = 0
  /\ parseCalls = 0
  /\ disk = Undef
  /\ sent = <<>>

\* ------------------------------------------------------------ C19
\* C19: a config:UPDATE whose path is missing or the empty string is handled
\* as shadowed whatever the command line holds, because the override tree's
\* root is an object: the file is not written, the Store is not touched,
\* nothing is dispatched and the refusal is logged.
C19_RootPathAlwaysShadowed ==
  (last.op = "config:UPDATE" /\ last.path \in {<<>>, <<"">>}) =>
    /\ _over.t = "obj"
    /\ disk = last.before
    /\ last.dispatched = <<>>
    /\ last.events = <<>>
    /\ last.ret = Undef
    /\ last.logs = <<"debug:Handling config:UPDATE",
                     "info:in overrides; not updating">>

C19_Witness ==
  /\ last.op = "config:UPDATE"
  /\ last.path = <<"">>
  /\ argv = <<>>
  /\ ~_store
  /\ _over = Obj([k \in {"_"} |-> EmptyArray])

====
